---- MODULE Spec2Model ----
(***************************************************************************)
(* tao::pq::parameter_traits: the conversion of typed host values into the *)
(* flattened (data, length, format) columns of a parameter array.          *)
(*                                                                         *)
(* A host TYPE is a record [k, a, adl]: k names the type, a holds the      *)
(* template arguments (the T of std::optional<T>, the Ts... of             *)
(* std::tuple<Ts...>), adl says whether a free function to_taopq_param is  *)
(* found for the type.  A host VALUE is a record [n, s, b, c]: an integer, *)
(* a text, a word of base-256 digits (most significant first, used where   *)
(* the value is wider than 32 bits) and the contained values of an         *)
(* optional or a tuple.                                                    *)
(*                                                                         *)
(* The host is the one the header is written for: <byteswap.h>, 8-byte     *)
(* long, least significant byte first in memory.                           *)
(***************************************************************************)
EXTENDS Integers, Sequences, FiniteSets, TLC

VARIABLES pc, T, val, enc, freed, obs

vars == <<pc, T, val, enc, freed, obs>>

\* Largest arity of the tuples that are built.
MaxArity == 2

\* Largest arity of the tuples nested inside the tuples that are built.
MaxInner == 3

-----------------------------------------------------------------------------
(* Host types *)

Ty(k) == [k |-> k, a |-> <<>>, adl |-> FALSE]

Optional(t) == [k |-> "optional", a |-> <<t>>, adl |-> FALSE]

Tuple(ts) == [k |-> "tuple", a |-> ts, adl |-> FALSE]

\* The same type with a to_taopq_param found for it.
WithHook(t) == [t EXCEPT !.adl = TRUE]

\* Types with an explicit specialization parameter_traits< X >.
ExplicitKinds ==
    {"null_t", "const char*", "std::string", "bool", "char", "signed char",
     "unsigned char", "short", "unsigned short", "int", "unsigned", "long",
     "unsigned long", "long long", "unsigned long long", "float", "double",
     "long double"}

\* The integer types among them.
IntegerKinds ==
    {"signed char", "unsigned char", "short", "unsigned short", "int",
     "unsigned", "long", "unsigned long", "long long", "unsigned long long"}

\* sizeof, in bytes, of the integer types (LP64, as the static_asserts demand).
SizeOf(k) ==
    CASE k \in {"signed char", "unsigned char"} -> 1
      [] k \in {"short", "unsigned short"} -> 2
      [] k \in {"int", "unsigned", "float"} -> 4
      [] k \in {"long", "unsigned long", "long long", "unsigned long long", "double"} -> 8
      [] OTHER -> 0

IsSigned(k) == k \in {"signed char", "short", "int", "long", "long long"}

\* User types: each is a class outside the library; the hook, when there is
\* one, is the free function to_taopq_param found for it.
UserKinds ==
    {"UserString", "UserOptInt", "UserOptString", "UserTuple",
     "UserTupleString", "UserChain", "UserInt", "UserPlain"}

User(k) == [k |-> k, a |-> <<>>, adl |-> k # "UserPlain"]

-----------------------------------------------------------------------------
(* Host values *)

NoV == [n |-> 0, s |-> "", b |-> <<>>, c |-> <<>>]

IntV(n) == [NoV EXCEPT !.n = n]

StrV(s) == [NoV EXCEPT !.s = s]

WordV(b) == [NoV EXCEPT !.b = b]

\* std::nullopt, an engaged optional, a tuple.
NoneV == NoV

SomeV(v) == [NoV EXCEPT !.n = 1, !.c = <<v>>]

TupV(vs) == [NoV EXCEPT !.c = vs]

\* A long double: its class in s, its sign bit in n, its magnitude in b.
LDV(cls, sign, mag) == [NoV EXCEPT !.s = cls, !.n = sign, !.b = <<mag>>]

-----------------------------------------------------------------------------
(* Bits and bytes *)

Reverse(w) == [i \in 1..Len(w) |-> w[Len(w) + 1 - i]]

\* 256^k for the byte positions of a 32-bit object.
Pow256(k) == CASE k = 0 -> 1 [] k = 1 -> 256 [] k = 2 -> 65536 [] OTHER -> 16777216

\* The two's-complement word of the w-byte integer n (w <= 4), most
\* significant digit first.
Word(n, w) == [i \in 1..w |-> (n \div Pow256(w - i)) % 256]

\* The signed integer a word of at most 4 digits stands for.
RECURSIVE Digits256(_)
Digits256(w) == IF w = <<>> THEN 0 ELSE Digits256(SubSeq(w, 1, Len(w) - 1)) * 256 + w[Len(w)]

Signed(w) ==
    IF w[1] >= 128
    THEN Digits256(<<w[1] - 256>> \o SubSeq(w, 2, Len(w)))
    ELSE Digits256(w)

\* bswap_16 of <byteswap.h> on the 16 bits of a short, read back as a short.
bswap_16(n) ==
    LET u == n % 65536
        r == (u \div 256) + (u % 256) * 256
    IN  IF r >= 32768 THEN r - 65536 ELSE r

\* bswap_32 gone wrong: the two 16-bit halves change places, their bytes do
\* not.
bswap_32_Halves(n) ==
    LET w == Word(n, 4) IN Signed(<<w[3], w[4], w[1], w[2]>>)

\* bswap_32 on the 32 bits of an int, read back as an int.
bswap_32(n) == Signed(Reverse(Word(n, 4)))

\* bswap_64 on the 64 bits of a long, held as a word of eight digits.
bswap_64(w) == Reverse(w)

\* The bytes of an object in memory, lowest address first, given the word of
\* its value: the host stores the least significant byte first.
ObjectBytes(w) == Reverse(w)

\* internal::bit_cast< int >( float ): the int with the float's 32 bits.  A
\* float is held as the word of its IEEE-754 pattern.
bit_cast_int(v) == Signed(v.b)

\* internal::bit_cast< long >( double ): the long with the double's 64 bits.
bit_cast_long(v) == v.b

\* internal::printf for the integer patterns: the decimal text of the value.
printf(pattern, n) == ToString(n)

\* std::isfinite, std::isnan and v < 0 on a long double.
isfinite(v) == v.s \in {"zero", "subnormal", "normal"}

isnan(v) == v.s = "nan"

LessThanZero(v) == v.s \in {"subnormal", "normal", "inf"} /\ v.n = 1

\* internal::printf( "%.21Lg", v ) for a finite long double: a sign, digits
\* and, below the normal range, an exponent.
printf_Lg(pattern, v) ==
    (IF v.n = 1 THEN "-" ELSE "") \o ToString(v.b[1])
        \o (IF v.s = "subnormal" THEN "e-4945" ELSE "")

\* printf_helper gone wrong: a NaN is not told from an infinity.
printf_helper_NoNaN(pattern, v) ==
    IF isfinite(v) THEN printf_Lg(pattern, v)
    ELSE IF v.n = 1 THEN "-INF" ELSE "INF"

printf_helper(pattern, v) ==
    IF isfinite(v) THEN printf_Lg(pattern, v)
    ELSE IF isnan(v) THEN "NAN"
    ELSE IF LessThanZero(v) THEN "-INF" ELSE "INF"

-----------------------------------------------------------------------------
(* Pointers and the objects that are built *)

\* A const char*: own names the storage it points into ("null" for nullptr,
\* "static" for a literal, "caller" for the argument of the call, "temp" for
\* a temporary of the constructor's initializer, "self" for a member of the
\* parameter_traits object); text or bytes is what is stored there.
Ptr(own, text, bytes) == [own |-> own, text |-> text, bytes |-> bytes]

nullptr == Ptr("null", "", <<>>)

\* A parameter_traits object: def names the definition it instantiates, the
\* other fields are the data members (m_forwarder and m_tuple in kids).
Obj(def) ==
    [def |-> def, m_p |-> nullptr, m_s |-> "", m_v |-> 0, m_w |-> <<>>, kids |-> <<>>]

\* No object.
NoObj == Obj("none")

char_pointer_helper(def, p) == [Obj(def) EXCEPT !.m_p = p]

string_helper(def, s) == [Obj(def) EXCEPT !.m_s = s]

-----------------------------------------------------------------------------
(* Dispatch: which definition of parameter_traits< T > is instantiated *)

\* to_taopq_param( std::declval< const T& >() ) is well-formed.
HookFound(t) == t.adl

\* The definitions whose template arguments match < T, void >: the explicit
\* specializations, the partial specializations for std::optional and
\* std::tuple, the partial specialization guarded by std::void_t, and the
\* primary template, each with its rank in the order of specialization (an
\* explicit specialization before any partial one, < std::optional< T > > and
\* < std::tuple< Ts... > > before < T, void_t< ... > >, the primary last).
\* The order of specialization gone wrong: the partial specialization
\* guarded by std::void_t counts as much as the ones for std::optional and
\* std::tuple.
Matching_HookAsSpecialized(t) ==
    (IF t.k \in ExplicitKinds THEN {<<3, t.k>>} ELSE {})
        \cup (IF t.k = "optional" THEN {<<2, "optional">>} ELSE {})
        \cup (IF t.k = "tuple" THEN {<<2, "tuple">>} ELSE {})
        \cup (IF HookFound(t) THEN {<<2, "hook">>} ELSE {})
        \cup {<<0, "primary">>}

Matching(t) ==
    (IF t.k \in ExplicitKinds THEN {<<3, t.k>>} ELSE {})
        \cup (IF t.k = "optional" THEN {<<2, "optional">>} ELSE {})
        \cup (IF t.k = "tuple" THEN {<<2, "tuple">>} ELSE {})
        \cup (IF HookFound(t) THEN {<<1, "hook">>} ELSE {})
        \cup {<<0, "primary">>}

\* The definition chosen: the most specialized match, "ambiguous" when two
\* matches are equally specialized.
Selected(t) ==
    LET best == {m \in Matching(t) : \A o \in Matching(t) : o[1] <= m[1]}
    IN  IF Cardinality(best) = 1 THEN (CHOOSE m \in best : TRUE)[2] ELSE "ambiguous"

\* decltype( to_taopq_param( std::declval< const T& >() ) ) of the user types.
HookType(t) ==
    CASE t.k = "UserString" -> Ty("std::string")
      [] t.k = "UserOptInt" -> Optional(Ty("int"))
      [] t.k = "UserOptString" -> Optional(Ty("std::string"))
      [] t.k = "UserTuple" -> Tuple(<<Ty("int"), Ty("bool")>>)
      [] t.k = "UserTupleString" -> Tuple(<<Ty("int"), Ty("std::string")>>)
      [] t.k = "UserChain" -> User("UserOptInt")
      [] t.k = "UserInt" -> Ty("int")
      [] OTHER -> Ty("void")

\* to_taopq_param( t ) of the user types: what the member function of the
\* class, or the free function beside it, returns for the object v.
to_taopq_param(t, v) ==
    CASE t.k = "UserString" -> StrV(v.s)
      [] t.k = "UserOptInt" -> IF v.n = 0 THEN NoneV ELSE SomeV(IntV(v.n))
      [] t.k = "UserOptString" -> IF v.n = 0 THEN NoneV ELSE SomeV(StrV(v.s))
      [] t.k = "UserTuple" -> TupV(<<IntV(v.n), IntV(IF v.n > 0 THEN 1 ELSE 0)>>)
      [] t.k = "UserTupleString" -> TupV(<<IntV(v.n), StrV(v.s)>>)
      [] t.k = "UserChain" -> [v EXCEPT !.n = 0]
      [] t.k = "UserInt" -> IntV(v.n + v.n)
      [] OTHER -> NoV

-----------------------------------------------------------------------------
(* columns *)

RECURSIVE Sum(_)
Sum(cs) == IF cs = <<>> THEN 0 ELSE cs[1] + Sum(Tail(cs))

RECURSIVE Columns(_)

\* parameter_traits< std::optional< T > >::columns
OptionalColumns(t) == 1

\* The pack parameter_traits< std::decay_t< Ts > >::columns...
ElementColumns(t) == [i \in 1..Len(t.a) |-> Columns(t.a[i])]

\* The fold gone wrong: the last element of the pack is left out.
TupleColumns_DropLast(t) == 0 + Sum(SubSeq(ElementColumns(t), 1, Len(t.a) - 1))

\* parameter_traits< std::tuple< Ts... > >::columns
TupleColumns(t) == 0 + Sum(ElementColumns(t))

\* The hook gone wrong: it declares one column of its own.
HookColumns_One(t) == 1

\* The columns inherited from parameter_traits< decltype( to_taopq_param ) >.
HookColumns(t) == Columns(HookType(t))

Columns(t) ==
    LET d == Selected(t)
    IN  CASE d = "optional" -> OptionalColumns(t)
          [] d = "tuple" -> TupleColumns(t)
          [] d = "hook" -> HookColumns(t)
          [] OTHER -> 1

\* The static_asserts of the definitions: whether parameter_traits< T > can
\* be instantiated at all.
RECURSIVE Buildable(_)
Buildable(t) ==
    LET d == Selected(t)
    IN  CASE d \in {"primary", "ambiguous"} -> FALSE
          [] d = "optional" -> Buildable(t.a[1]) /\ Columns(t.a[1]) = 1
          [] d = "tuple" -> \A i \in 1..Len(t.a) : Buildable(t.a[i])
          [] d = "hook" -> Buildable(HookType(t))
          [] OTHER -> TRUE

-----------------------------------------------------------------------------
(* internal::gen< Ns... >: the routing of a column index to an element *)

\* The columns before element k (1-based) of a pack of column counts.
Before(cs, k) == Sum(SubSeq(cs, 1, k - 1))

\* gen::outer< I >: the 0-based element that owns column I.
GenOuter(cs, I) ==
    (CHOOSE k \in 1..Len(cs) : Before(cs, k) <= I /\ I < Before(cs, k) + cs[k]) - 1

\* gen::inner< I >: the column of that element.
GenInner(cs, I) == I - Before(cs, GenOuter(cs, I) + 1)

-----------------------------------------------------------------------------
(* The static observers size< I >() and format< I >() *)

RECURSIVE Size(_, _), Format(_, _)

\* size< I >() of the explicit specializations.
ScalarSize(t, I) ==
    CASE t.k = "short" -> SizeOf("short")
      [] t.k \in {"int", "float"} -> SizeOf("int")
      [] t.k \in {"long", "double"} -> SizeOf("long")
      [] OTHER -> 0

\* format< I >() gone wrong: long long is given the binary format of long.
ScalarFormat_LongLongBinary(t, I) ==
    IF t.k \in {"short", "int", "long", "long long", "float", "double"} THEN 1 ELSE 0

\* format< I >() of the explicit specializations.
ScalarFormat(t, I) == IF t.k \in {"short", "int", "long", "float", "double"} THEN 1 ELSE 0

OptionalSize(t, I) == Size(t.a[1], I)

OptionalFormat(t, I) == Format(t.a[1], I)

TupleSize(t, I) ==
    Size(t.a[GenOuter(ElementColumns(t), I) + 1], GenInner(ElementColumns(t), I))

TupleFormat(t, I) ==
    Format(t.a[GenOuter(ElementColumns(t), I) + 1], GenInner(ElementColumns(t), I))

Size(t, I) ==
    LET d == Selected(t)
    IN  CASE d = "optional" -> OptionalSize(t, I)
          [] d = "tuple" -> TupleSize(t, I)
          [] d = "hook" -> Size(HookType(t), I)
          [] OTHER -> ScalarSize(t, I)

Format(t, I) ==
    LET d == Selected(t)
    IN  CASE d = "optional" -> OptionalFormat(t, I)
          [] d = "tuple" -> TupleFormat(t, I)
          [] d = "hook" -> Format(HookType(t), I)
          [] OTHER -> ScalarFormat(t, I)

-----------------------------------------------------------------------------
(* The constructors.  from names the storage the argument lives in. *)

RECURSIVE Construct(_, _, _)

\* The constructors of the explicit specializations.
ScalarTraits(t, v, from) ==
    CASE t.k = "null_t" -> Obj("null_t")
      [] t.k = "const char*" -> char_pointer_helper(t.k, Ptr("caller", v.s, <<>>))
      [] t.k = "std::string" -> char_pointer_helper(t.k, Ptr(from, v.s, <<>>))
      [] t.k = "bool" ->
            char_pointer_helper(t.k, Ptr("static", IF v.n = 1 THEN "TRUE" ELSE "FALSE", <<>>))
      [] t.k = "char" -> string_helper(t.k, v.s)
      [] t.k = "signed char" -> string_helper(t.k, printf("%hhd", v.n))
      [] t.k = "unsigned char" -> string_helper(t.k, printf("%hhu", v.n))
      [] t.k = "short" -> [Obj("short") EXCEPT !.m_v = bswap_16(v.n)]
      [] t.k = "unsigned short" -> string_helper(t.k, printf("%hu", v.n))
      [] t.k = "int" -> [Obj("int") EXCEPT !.m_v = bswap_32(v.n)]
      [] t.k = "unsigned" -> string_helper(t.k, printf("%u", v.n))
      [] t.k = "long" -> [Obj("long") EXCEPT !.m_w = bswap_64(v.b)]
      [] t.k = "unsigned long" -> string_helper(t.k, printf("%lu", v.n))
      [] t.k = "long long" -> string_helper(t.k, printf("%lld", v.n))
      [] t.k = "unsigned long long" -> string_helper(t.k, printf("%llu", v.n))
      [] t.k = "float" -> [Obj("int") EXCEPT !.m_v = bswap_32(bit_cast_int(v))]
      [] t.k = "double" -> [Obj("long") EXCEPT !.m_w = bswap_64(bit_cast_long(v))]
      [] t.k = "long double" -> string_helper(t.k, printf_helper("%.21Lg", v))
      [] OTHER -> NoObj

\* parameter_traits< std::optional< T > >: m_forwarder is emplaced from *v
\* when v holds a value.
OptionalTraits(t, v, from) ==
    [Obj("optional") EXCEPT
        !.kids = IF v.n = 1 THEN <<Construct(t.a[1], v.c[1], from)>> ELSE <<>>]

\* parameter_traits< std::tuple< Ts... > >: m_tuple( tuple ) builds each
\* element from the element of the argument.
TupleTraits(t, v, from) ==
    [Obj("tuple") EXCEPT
        !.kids = [i \in 1..Len(t.a) |-> Construct(t.a[i], v.c[i], from)]]

\* The hook: the base class is built from the temporary to_taopq_param( t ).
HookTraits(t, v, from) == Construct(HookType(t), to_taopq_param(t, v), "temp")

Construct(t, v, from) ==
    LET d == Selected(t)
    IN  CASE d = "optional" -> OptionalTraits(t, v, from)
          [] d = "tuple" -> TupleTraits(t, v, from)
          [] d = "hook" -> HookTraits(t, v, from)
          [] OTHER -> ScalarTraits(t, v, from)

-----------------------------------------------------------------------------
(* The observer c_str< I >() *)

RECURSIVE CStr(_, _, _)

\* c_str< I >() of the explicit specializations and their helpers.
ScalarCStr(t, e, I) ==
    CASE e.def = "null_t" -> nullptr
      [] e.def = "short" -> Ptr("self", "", ObjectBytes(Word(e.m_v, 2)))
      [] e.def = "int" -> Ptr("self", "", ObjectBytes(Word(e.m_v, 4)))
      [] e.def = "long" -> Ptr("self", "", ObjectBytes(e.m_w))
      [] e.def \in {"const char*", "std::string", "bool"} -> e.m_p
      [] OTHER -> Ptr("self", e.m_s, <<>>)

\* c_str< I >() of the optional gone wrong: m_forwarder is never asked.
OptionalCStr_AlwaysNull(t, e, I) == nullptr

OptionalCStr(t, e, I) == IF e.kids # <<>> THEN CStr(t.a[1], e.kids[1], I) ELSE nullptr

\* c_str< I >() of the tuple gone wrong: the element is asked for its first
\* column whatever I is.
TupleCStr_FirstColumn(t, e, I) ==
    CStr(t.a[GenOuter(ElementColumns(t), I) + 1],
         e.kids[GenOuter(ElementColumns(t), I) + 1],
         0)

TupleCStr(t, e, I) ==
    CStr(t.a[GenOuter(ElementColumns(t), I) + 1],
         e.kids[GenOuter(ElementColumns(t), I) + 1],
         GenInner(ElementColumns(t), I))

CStr(t, e, I) ==
    LET d == Selected(t)
    IN  CASE d = "optional" -> OptionalCStr(t, e, I)
          [] d = "tuple" -> TupleCStr(t, e, I)
          [] d = "hook" -> CStr(HookType(t), e, I)
          [] OTHER -> ScalarCStr(t, e, I)

-----------------------------------------------------------------------------
(* The values and types the calls are made with *)

ScalarValues(k) ==
    CASE k = "null_t" -> {NoV}
      [] k \in {"const char*", "std::string"} -> {StrV(""), StrV("abc")}
      [] k = "bool" -> {IntV(0), IntV(1)}
      [] k = "char" -> {StrV("A"), StrV("z")}
      [] k = "signed char" -> {IntV(-128), IntV(-1), IntV(0), IntV(127)}
      [] k = "unsigned char" -> {IntV(0), IntV(255)}
      [] k = "short" -> {IntV(n) : n \in {-32768, -1, 0, 1, 258, 32767}}
      [] k = "unsigned short" -> {IntV(0), IntV(65535)}
      [] k = "int" -> {IntV(n) : n \in {-2147483647 - 1, -1, 0, 1, 16909060, 2147483647}}
      [] k \in {"unsigned", "unsigned long", "unsigned long long"} ->
            {IntV(0), IntV(7), IntV(2147483647)}
      [] k = "long long" -> {IntV(-2147483647 - 1), IntV(-5), IntV(0), IntV(2147483647)}
      [] k = "long" ->
            {WordV(w) : w \in {<<0, 0, 0, 0, 0, 0, 0, 0>>, <<0, 0, 0, 0, 0, 0, 0, 1>>,
                               <<255, 255, 255, 255, 255, 255, 255, 255>>,
                               <<128, 0, 0, 0, 0, 0, 0, 0>>,
                               <<127, 255, 255, 255, 255, 255, 255, 255>>,
                               <<1, 2, 3, 4, 5, 6, 7, 8>>}}
      [] k = "float" ->
            {WordV(w) : w \in {<<0, 0, 0, 0>>, <<63, 128, 0, 0>>, <<128, 0, 0, 0>>,
                               <<127, 192, 0, 0>>, <<255, 128, 0, 0>>,
                               <<127, 127, 255, 255>>}}
      [] k = "double" ->
            {WordV(w) : w \in {<<0, 0, 0, 0, 0, 0, 0, 0>>, <<63, 240, 0, 0, 0, 0, 0, 0>>,
                               <<192, 4, 0, 0, 0, 0, 0, 0>>, <<127, 248, 0, 0, 0, 0, 0, 1>>,
                               <<255, 240, 0, 0, 0, 0, 0, 0>>}}
      [] k = "long double" ->
            {LDV(c, sg, IF c \in {"subnormal", "normal"} THEN 15 ELSE 0) :
                c \in {"nan", "inf", "zero", "subnormal", "normal"}, sg \in {0, 1}}
      [] OTHER -> {}

\* The objects of the user types.
UserValues == {[NoV EXCEPT !.n = n, !.s = s] : n \in {0, 5}, s \in {"", "abc"}}

\* One of two sample values of a type, for the elements of a tuple; the
\* elements of a tuple alternate between the two.
RECURSIVE Sample(_, _)
Sample(t, which) ==
    CASE t.k = "bool" -> IntV(which)
      [] t.k = "int" -> IntV(IF which = 1 THEN 16909060 ELSE -2)
      [] t.k = "std::string" -> StrV(IF which = 1 THEN "abc" ELSE "")
      [] t.k = "optional" -> IF which = 1 THEN SomeV(Sample(t.a[1], 1)) ELSE NoneV
      [] t.k = "tuple" -> TupV([i \in 1..Len(t.a) |-> Sample(t.a[i], (which + i + 1) % 2)])
      [] OTHER -> [NoV EXCEPT !.n = 5 * which, !.s = IF which = 1 THEN "abc" ELSE ""]

RECURSIVE Values(_)
Values(t) ==
    CASE t.k \in ExplicitKinds -> ScalarValues(t.k)
      [] t.k = "optional" -> {NoneV} \cup {SomeV(v) : v \in Values(t.a[1])}
      [] t.k = "tuple" -> {Sample(t, 0), Sample(t, 1)}
      [] OTHER -> UserValues

\* All sequences over S of length at most n.
SeqsUpTo(S, n) == UNION {[1..k -> S] : k \in 0..n}

InnerTuples == {Tuple(ts) : ts \in SeqsUpTo({Ty("bool")}, MaxInner)}

TupleTypes ==
    {Tuple(ts) : ts \in SeqsUpTo({Ty("int"), Ty("std::string")} \cup InnerTuples, MaxArity)}

OptionalTypes ==
    {Optional(Ty(k)) :
        k \in {"null_t", "std::string", "bool", "char", "short", "int", "unsigned",
               "long", "long long", "double", "long double"}}
        \cup {Optional(Optional(Ty("int"))), Optional(User("UserInt")),
              Optional(User("UserString"))}

MixedTuples ==
    {Tuple(<<Optional(Ty("int")), User("UserTupleString")>>),
     Tuple(<<User("UserOptInt"), Ty("long double")>>),
     Tuple(<<Tuple(<<Tuple(<<>>), Ty("bool")>>), Ty("double")>>)}

\* Built-in types for which a to_taopq_param is found as well.
HookedBuiltins ==
    {WithHook(Ty("int")), WithHook(Ty("std::string")), WithHook(Ty("null_t")),
     WithHook(Optional(Ty("int"))), WithHook(Tuple(<<Ty("int"), Ty("bool")>>))}

\* Types no parameter_traits can be instantiated for.
RejectedTypes ==
    {User("UserPlain"), Ty("void"), Optional(Tuple(<<Ty("int"), Ty("bool")>>)),
     Optional(Tuple(<<>>)), Tuple(<<Ty("int"), User("UserPlain")>>),
     Optional(User("UserTuple"))}

Types ==
    {Ty(k) : k \in ExplicitKinds} \cup {User(k) : k \in UserKinds} \cup OptionalTypes
        \cup TupleTypes \cup MixedTuples \cup HookedBuiltins \cup RejectedTypes

-----------------------------------------------------------------------------
(* The life of one parameter_traits object *)

\* What a read through a pointer yields.
Data(null, text, bytes) == [null |-> null, text |-> text, bytes |-> bytes]

\* What reading through p yields while its storage is alive.
Stored(p) == Data(p.own = "null", p.text, p.bytes)

\* What reading through p can yield: the stored content, or, once the storage
\* has been destroyed, whatever the memory holds by then.
Reads(p) ==
    IF p.own \in freed
    THEN {Stored(p), Data(FALSE, "<freed>", <<>>), Data(FALSE, "", <<>>)}
    ELSE {Stored(p)}

NoObs == [i |-> -1, ptr |-> nullptr, data |-> Stored(nullptr), size |-> 0, format |-> 0]

Init ==
    /\ pc = "idle"
    /\ T = Ty("void")
    /\ val = NoV
    /\ enc = NoObj
    /\ freed = {}
    /\ obs = NoObs

\* parameter_traits< T > p( v ): the constructor runs, and the temporaries of
\* its initializers are destroyed when it returns.
Build(t, v) ==
    /\ pc = "idle"
    /\ Buildable(t)
    /\ pc' = "built"
    /\ T' = t
    /\ val' = v
    /\ enc' = Construct(t, v, "caller")
    /\ freed' = {"temp"}
    /\ obs' = NoObs

\* A type whose parameter_traits cannot be instantiated: the call does not
\* compile.
Reject(t) ==
    /\ pc = "idle"
    /\ ~Buildable(t)
    /\ pc' = "rejected"
    /\ T' = t
    /\ UNCHANGED <<val, enc, freed, obs>>

\* p.c_str< I >(), p.size< I >(), p.format< I >() for a column I.
Observe(I) ==
    /\ pc = "built"
    /\ I < Columns(T)
    /\ \E d \in Reads(CStr(T, enc, I)) :
          obs' = [i |-> I, ptr |-> CStr(T, enc, I), data |-> d,
                  size |-> Size(T, I), format |-> Format(T, I)]
    /\ UNCHANGED <<pc, T, val, enc, freed>>

\* The object goes out of scope after the call.
Discard ==
    /\ pc \in {"built", "rejected"}
    /\ pc' = "idle"
    /\ T' = Ty("void")
    /\ val' = NoV
    /\ enc' = NoObj
    /\ freed' = {}
    /\ obs' = NoObs

Next ==
    \/ \E t \in Types : \E v \in Values(t) : Build(t, v)
    \/ \E t \in Types : Reject(t)
    \/ \E I \in 0..(Columns(T) - 1) : Observe(I)
    \/ Discard

Spec == Init /\ [][Next]_vars

-----------------------------------------------------------------------------
(* Properties *)

BuiltIn(t) == t.k \in ExplicitKinds \cup {"optional", "tuple"}

IntPairOfBools == Tuple(<<Ty("int"), Tuple(<<Ty("bool"), Ty("bool")>>)>>)

\* Element k (1-based) of a pack of column counts owns column I.
Owns(cs, I, k) == Before(cs, k) <= I /\ I < Before(cs, k) + cs[k]

\* C1: in a tuple whose elements have the column counts c0..ck, columns is
\* their sum, every column I below it is owned by exactly one element, outer
\* is that element and inner is I minus the columns before it, within the
\* element's count; no two columns are routed to the same (outer, inner) and
\* every (element, local column) is reached.
C1_TuplePartitionExact ==
    (pc = "built" /\ Selected(T) = "tuple") =>
        LET cs == [i \in 1..Len(T.a) |-> Columns(T.a[i])]
            n == Columns(T)
            route(I) == <<GenOuter(cs, I), GenInner(cs, I)>>
        IN  /\ n = Sum(cs)
            /\ \A I \in 0..(n - 1) :
                  /\ Cardinality({k \in 1..Len(cs) : Owns(cs, I, k)}) = 1
                  /\ Owns(cs, I, route(I)[1] + 1)
                  /\ route(I)[2] = I - Before(cs, route(I)[1] + 1)
                  /\ 0 <= route(I)[2] /\ route(I)[2] < cs[route(I)[1] + 1]
            /\ \A I, J \in 0..(n - 1) : I # J => route(I) # route(J)
            /\ \A k \in 1..Len(cs) : \A j \in 0..(cs[k] - 1) :
                  \E I \in 0..(n - 1) : route(I) = <<k - 1, j>>

\* A tuple of an empty tuple and a nested triple has been built and its last
\* column read.
C1_Witness ==
    /\ pc = "built"
    /\ T = Tuple(<<Tuple(<<>>), Tuple(<<Ty("bool"), Ty("bool"), Ty("bool")>>)>>)
    /\ obs.i = 2

\* C2: an empty std::optional< T > has one column, a null data(0), and the
\* length and format of T; one that holds v answers every observer as the
\* object built from v does.
C2_OptionalDelegates ==
    (pc = "built" /\ Selected(T) = "optional") =>
        LET U == T.a[1]
            p == CStr(T, enc, 0)
        IN  /\ Columns(T) = 1
            /\ Size(T, 0) = Size(U, 0)
            /\ Format(T, 0) = Format(U, 0)
            /\ U.k = "int" => (Size(T, 0) = 4 /\ Format(T, 0) = 1)
            /\ val.n = 0 => p = nullptr
            /\ val.n = 1 => p = CStr(U, Construct(U, val.c[1], "caller"), 0)
            /\ obs.i = 0 => /\ obs.ptr = p
                            /\ obs.size = Size(U, 0)
                            /\ obs.format = Format(U, 0)
                            /\ val.n = 0 => obs.data.null

\* An empty optional of int has been read, or one holding a text.
C2_Witness ==
    /\ pc = "built"
    /\ obs.i = 0
    /\ \/ T = Optional(Ty("int")) /\ val = NoneV /\ obs.data.null /\ obs.size = 4
       \/ T = Optional(Ty("std::string")) /\ val = SomeV(StrV("abc")) /\ obs.data.text = "abc"

\* C3: every non-null data(i) of a built object points into storage that is
\* alive until the object is discarded.
C3_DataOutlivesObservers ==
    pc = "built" =>
        \A I \in 0..(Columns(T) - 1) : CStr(T, enc, I).own \notin freed

\* C4 as stated: an integer type is binary exactly when it is signed and 16,
\* 32 or 64 bits wide, long long included.
C4_BinaryIffSignedWidth ==
    (pc = "built" /\ T.k \in IntegerKinds) =>
        (Format(T, 0) = 1 <=> (IsSigned(T.k) /\ SizeOf(T.k) \in {2, 4, 8}))

\* C4: an integer type is binary (format 1, length its width, data in the
\* object) exactly when it is short, int or long; every other integer type,
\* the signed 64-bit long long included, is the decimal text of the value
\* with format 0.
C4_BinaryIffShortIntLong ==
    (pc = "built" /\ T.k \in IntegerKinds) =>
        LET p == CStr(T, enc, 0)
        IN  IF T.k \in {"short", "int", "long"}
            THEN /\ Format(T, 0) = 1
                 /\ Size(T, 0) = SizeOf(T.k)
                 /\ p.own = "self" /\ Len(p.bytes) = SizeOf(T.k)
            ELSE /\ Format(T, 0) = 0
                 /\ p.own = "self" /\ p.bytes = <<>>
                 /\ p.text = ToString(val.n)

\* A long long has been read as text.
C4_Witness ==
    /\ pc = "built"
    /\ T = Ty("long long")
    /\ val.n = -5
    /\ obs.i = 0 /\ obs.format = 0 /\ obs.data.text = "-5"

\* The word of the value a binary scalar is built from.
ValueWord ==
    CASE T.k = "short" -> Word(val.n, 2)
      [] T.k = "int" -> Word(val.n, 4)
      [] OTHER -> val.b

\* C5: the length(0) bytes at data(0) of a short, int, long, float or double
\* are the bytes of the value, most significant first, and swapping the
\* stored value back gives the value.
C5_NetworkOrderAndInvolution ==
    (pc = "built" /\ T.k \in {"short", "int", "long", "float", "double"}) =>
        LET p == CStr(T, enc, 0)
            stored == Reverse(p.bytes)
        IN  /\ Len(p.bytes) = Size(T, 0)
            /\ p.bytes = ValueWord
            /\ T.k = "short" => bswap_16(Signed(stored)) = val.n
            /\ T.k = "int" => bswap_32(Signed(stored)) = val.n
            /\ T.k = "float" => Word(bswap_32(Signed(stored)), 4) = val.b
            /\ T.k \in {"long", "double"} => bswap_64(stored) = val.b
            /\ (T.k = "short" /\ val.n = 258) => p.bytes = <<1, 2>>
            /\ (T.k = "short" /\ val.n = -32768) => p.bytes = <<128, 0>>
            /\ (T.k = "int" /\ val.n = 16909060) => p.bytes = <<1, 2, 3, 4>>
            /\ (T.k = "int" /\ val.n = -1) => p.bytes = <<255, 255, 255, 255>>
            /\ (T.k = "int" /\ val.n = 2147483647) => p.bytes = <<127, 255, 255, 255>>

\* The smallest int and a float have been read.
C5_Witness ==
    /\ pc = "built"
    /\ obs.i = 0
    /\ \/ T = Ty("int") /\ val.n = -2147483647 - 1 /\ obs.data.bytes = <<128, 0, 0, 0>>
       \/ T = Ty("float") /\ obs.data.bytes = <<63, 128, 0, 0>>

\* C6: the object of a type handled by the hook has the columns of the object
\* built from the conversion's result and, at every column, the same data
\* content, length and format.
C6_HookEqualsIntermediate ==
    (pc = "built" /\ Selected(T) = "hook") =>
        LET R == HookType(T)
            direct == Construct(R, to_taopq_param(T, val), "caller")
        IN  /\ Columns(T) = Columns(R)
            /\ obs.i >= 0 => /\ obs.data = Stored(CStr(R, direct, obs.i))
                             /\ obs.size = Size(R, obs.i)
                             /\ obs.format = Format(R, obs.i)

\* The columns of an object, in order: pointer, length, format.
Flat(t, e) == [I \in 1..Columns(t) |-> <<CStr(t, e, I - 1), Size(t, I - 1), Format(t, I - 1)>>]

RECURSIVE Concat(_)
Concat(ss) == IF ss = <<>> THEN <<>> ELSE ss[1] \o Concat(Tail(ss))

\* Every tuple inside (t, e) is the concatenation of its elements.
RECURSIVE FlatOK(_, _)
FlatOK(t, e) ==
    CASE Selected(t) = "tuple" ->
            /\ Flat(t, e) = Concat([k \in 1..Len(t.a) |-> Flat(t.a[k], e.kids[k])])
            /\ \A k \in 1..Len(t.a) : FlatOK(t.a[k], e.kids[k])
      [] Selected(t) = "hook" -> FlatOK(HookType(t), e)
      [] OTHER -> TRUE

\* C7: the columns of a tuple are its elements' columns, in order, also for
\* tuples in tuples; (int, (bool, bool)) has three columns, the int first,
\* then the first and the second boolean.
C7_TupleIsConcatenation ==
    pc = "built" =>
        /\ FlatOK(T, enc)
        /\ T = IntPairOfBools =>
              /\ Columns(T) = 3
              /\ Flat(T, enc)[1] = <<Ptr("self", "", Word(val.c[1].n, 4)), 4, 1>>
              /\ Flat(T, enc)[2][1].text = (IF val.c[2].c[1].n = 1 THEN "TRUE" ELSE "FALSE")
              /\ Flat(T, enc)[3][1].text = (IF val.c[2].c[2].n = 1 THEN "TRUE" ELSE "FALSE")
              /\ Flat(T, enc)[2][3] = 0 /\ Flat(T, enc)[3][3] = 0

\* The second boolean of (int, (bool, bool)) has been read, the two booleans
\* being different.
C7_Witness ==
    /\ pc = "built"
    /\ T = IntPairOfBools
    /\ val.c[2].c[1].n = 1 /\ val.c[2].c[2].n = 0
    /\ obs.i = 2 /\ obs.data.text = "FALSE"

\* C8 as stated: every object that can be built has at least one column.
C8_ColumnsPositive == pc = "built" => Columns(T) >= 1

\* The types a type is made of that are not tuples, the results of the
\* hooks put in the place of the user types.
RECURSIVE Leaves(_)
Leaves(t) ==
    CASE Selected(t) = "tuple" -> Sum([i \in 1..Len(t.a) |-> Leaves(t.a[i])])
      [] Selected(t) = "hook" -> Leaves(HookType(t))
      [] OTHER -> 1

\* The columns the members of an object stand for.
RECURSIVE Slots(_)
Slots(e) == IF e.def = "tuple" THEN Sum([i \in 1..Len(e.kids) |-> Slots(e.kids[i])]) ELSE 1

\* C8: the column count is fixed by the type, whatever the value: it is 1
\* for a scalar, null and an optional (empty or not), the intermediate's for
\* a hook, and the sum over the elements for a tuple, which is 0 for a tuple
\* of arity zero and for tuples of nothing but such tuples, and at least 1
\* otherwise.
C8_ColumnsFixedNonNegative ==
    pc = "built" =>
        /\ Columns(T) = Leaves(T)
        /\ Columns(T) = Slots(enc)
        /\ \A v \in Values(T) : Slots(Construct(T, v, "caller")) = Columns(T)
        /\ Selected(T) # "tuple" => Columns(T) >= 1
        /\ T = Tuple(<<>>) => Columns(T) = 0

\* An empty tuple has been built, or an empty optional read.
C8_Witness ==
    /\ pc = "built"
    /\ \/ T = Tuple(<<Tuple(<<>>)>>)
       \/ T = Optional(Ty("long")) /\ val = NoneV /\ obs.i = 0

\* C9: a type with a built-in definition gets it, also when a to_taopq_param
\* is found for the type, and is built as without one; the hook is chosen
\* only for a type without a built-in definition; a type with neither is
\* rejected; the choice is never ambiguous.
C9_BuiltInBeforeHook ==
    /\ pc \in {"built", "rejected"} => Selected(T) # "ambiguous"
    /\ pc = "built" =>
          /\ Selected(T) # "primary"
          /\ BuiltIn(T) => /\ Selected(T) = T.k
                           /\ Selected(T) # "hook"
                           /\ enc = Construct([T EXCEPT !.adl = FALSE], val, "caller")
          /\ Selected(T) = "hook" <=> (~BuiltIn(T) /\ HookFound(T))
    /\ (pc = "rejected" /\ BuiltIn(T)) => Selected(T) = T.k
    /\ (pc \in {"built", "rejected"} /\ ~BuiltIn(T) /\ ~HookFound(T)) => pc = "rejected"

\* An optional with a to_taopq_param of its own has been built and read.
C9_Witness ==
    /\ pc = "built"
    /\ T = WithHook(Optional(Ty("int")))
    /\ val = SomeV(IntV(1))
    /\ obs.i = 0 /\ obs.data.bytes = <<0, 0, 0, 1>>

\* C10: a long double is one text column: "NAN" for a NaN of either sign,
\* "INF" and "-INF" for the infinities, and for a finite value what the
\* formatter makes of %.21Lg, which is none of the three.
C10_LongDoubleText ==
    (pc = "built" /\ T.k = "long double") =>
        LET p == CStr(T, enc, 0)
        IN  /\ Columns(T) = 1 /\ Format(T, 0) = 0
            /\ p.own = "self"
            /\ val.s = "nan" => p.text = "NAN"
            /\ (val.s = "inf" /\ val.n = 0) => p.text = "INF"
            /\ (val.s = "inf" /\ val.n = 1) => p.text = "-INF"
            /\ val.s \in {"zero", "subnormal", "normal"} => p.text = printf_Lg("%.21Lg", val)
            /\ p.text \in {"NAN", "INF", "-INF"} => val.s \in {"nan", "inf"}

\* A NaN with the sign bit set has been read.
C10_Witness ==
    /\ pc = "built"
    /\ T = Ty("long double")
    /\ val.s = "nan" /\ val.n = 1
    /\ obs.i = 0 /\ obs.data.text = "NAN" /\ obs.format = 0

====
